---- MODULE Spec2Model ----
(***************************************************************************)
(* A model of the tmux bridge (scripts/tmux_bridge.py) and of its          *)
(* run-command entry point (scripts/run_command.py).                       *)
(*                                                                         *)
(* Texts are sequences of one-character strings, so that the searches,     *)
(* slices, line splits and strips of the code are computed position by     *)
(* position.  The escape and bell characters are written "ESC" and "BEL".  *)
(***************************************************************************)
EXTENDS Integers, Sequences, FiniteSets, TLC

(***************************************************************************)
(* Characters and literals of the source.                                  *)
(***************************************************************************)
NL == "\n"
ESC == "ESC"
BEL == "BEL"

Digits == {"0", "1", "2", "3", "4", "5", "6", "7", "8", "9"}

Letters ==
    {"a", "b", "c", "d", "e", "f", "g", "h", "i", "j", "k", "l", "m",
     "n", "o", "p", "q", "r", "s", "t", "u", "v", "w", "x", "y", "z",
     "A", "B", "C", "D", "E", "F", "G", "H", "I", "J", "K", "L", "M",
     "N", "O", "P", "Q", "R", "S", "T", "U", "V", "W", "X", "Y", "Z"}

\* str.strip() and \s: the white space of the alphabet
Whitespace == {" ", NL, "\t"}

\* [\$#>] of prompt_prefix_re and of the default prompt_pattern
PromptChars == {"$", "#", ">"}

MarkerPrefix == <<"_", "_", "T", "M", "U", "X", "_", "B", "R", "I", "D", "G", "E", "_">>
StartWord == <<"S", "T", "A", "R", "T", "_">>
EndWord == <<"E", "N", "D", "_">>
MarkerSuffix == <<"_", "_">>
EchoQuote == <<"e", "c", "h", "o", " ", "'">>
Quote == <<"'">>

\* f"__TMUX_BRIDGE_START_{uid}__" and f"__TMUX_BRIDGE_END_{uid}__"
StartMarker(uid) == MarkerPrefix \o StartWord \o uid \o MarkerSuffix
\* a variant of the end marker that leaves the token out
EndMarkerNoToken(uid) == MarkerPrefix \o EndWord \o MarkerSuffix

EndMarker(uid) == MarkerPrefix \o EndWord \o uid \o MarkerSuffix

\* f"echo '{marker}'"
EchoLine(marker) == EchoQuote \o marker \o Quote

(***************************************************************************)
(* String primitives of Python, on texts.  Indices given to and returned   *)
(* by RFind, Find and Slice are Python's (0-based, -1 for "not found").    *)
(***************************************************************************)
Max(S) == CHOOSE x \in S : \A y \in S : y <= x
Min(S) == CHOOSE x \in S : \A y \in S : x <= y

\* needle occupies positions i+1 .. i+Len(needle) of text (i is 0-based)
MatchAt(text, needle, i) ==
    /\ i >= 0
    /\ i + Len(needle) <= Len(text)
    /\ \A k \in 1..Len(needle) : text[i + k] = needle[k]

\* text.startswith(prefix)
StartsWith(text, prefix) == MatchAt(text, prefix, 0)

\* needle in text
Contains(text, needle) == \E i \in 0..Len(text) : MatchAt(text, needle, i)

\* the 0-based positions at which needle occurs in text
Occurrences(text, needle) == {i \in 0..Len(text) : MatchAt(text, needle, i)}

\* text.find(needle): the first occurrence
Find(text, needle) ==
    IF Occurrences(text, needle) = {} THEN -1 ELSE Min(Occurrences(text, needle))

\* text.rfind(needle): the highest position of an occurrence, -1 for none
RFind(text, needle) ==
    IF Occurrences(text, needle) = {} THEN -1 ELSE Max(Occurrences(text, needle))

\* text[a:b] for 0 <= a, 0 <= b
Slice(text, a, b) ==
    LET hi == IF b > Len(text) THEN Len(text) ELSE b
    IN  IF a >= hi THEN <<>> ELSE SubSeq(text, a + 1, hi)

\* text[a:]
SliceFrom(text, a) == Slice(text, a, Len(text))

\* the positions of text that hold no white space
Inked(text) == {i \in 1..Len(text) : text[i] \notin Whitespace}

\* text.lstrip()
LStrip(text) ==
    IF Inked(text) = {} THEN <<>> ELSE SubSeq(text, Min(Inked(text)), Len(text))

\* text.rstrip()
RStrip(text) ==
    IF Inked(text) = {} THEN <<>> ELSE SubSeq(text, 1, Max(Inked(text)))

\* text.strip()
Strip(text) == RStrip(LStrip(text))

\* text.splitlines(): the lines without their line breaks; no empty last
\* line after a final line break
LineBreaks(text) == {i \in 1..Len(text) : text[i] = NL}

\* the k-th smallest of a set of positions (0 for k = 0)
BreakAt(breaks, k) ==
    IF k = 0 THEN 0
    ELSE CHOOSE i \in breaks : Cardinality({j \in breaks : j <= i}) = k

SplitLines(text) ==
    LET breaks == LineBreaks(text)
        n == Cardinality(breaks)
        last == BreakAt(breaks, n)
        terminated == [k \in 1..n |->
                          SubSeq(text, BreakAt(breaks, k - 1) + 1, BreakAt(breaks, k) - 1)]
    IN  IF last < Len(text)
        THEN Append(terminated, SubSeq(text, last + 1, Len(text)))
        ELSE terminated

\* "\n".join(lines)
RECURSIVE Join(_)
Join(lines) ==
    IF lines = <<>> THEN <<>>
    ELSE IF Len(lines) = 1 THEN lines[1]
    ELSE lines[1] \o <<NL>> \o Join(Tail(lines))

\* lines[-n:] for n >= 0 (lines[-0:] is the whole list)
LastLines(lines, n) ==
    IF n = 0 \/ n >= Len(lines) THEN lines
    ELSE SubSeq(lines, Len(lines) - n + 1, Len(lines))

(***************************************************************************)
(* Text Sanitizer: _ANSI_RE and strip_ansi.                                *)
(***************************************************************************)
\* [0-9;?] : the parameter bytes of a CSI sequence
ParamBytes == Digits \cup {";", "?"}

\* [0-9;?]* from position j: the first position at or after j that holds no
\* parameter byte (Len(text) + 1 when all the rest are parameter bytes)
ParamsEnd(text, j) ==
    Min({k \in j..(Len(text) + 1) : k > Len(text) \/ text[k] \notin ParamBytes})

\* OSC payload .*? up to the first BEL or ESC-backslash; "." matches no line
\* break.  The position of the terminator's last character, 0 for no match.
OscEnd(text, j) ==
    LET terms == {k \in j..Len(text) :
                     \/ text[k] = BEL
                     \/ text[k] = ESC /\ k + 1 <= Len(text) /\ text[k + 1] = "\\"}
        first == Min(terms)
    IN  IF terms = {} THEN 0
        ELSE IF \E k \in j..(first - 1) : text[k] = NL THEN 0
        ELSE IF text[first] = BEL THEN first ELSE first + 1

\* the length of the match of _ANSI_RE that starts at position i, 0 for none
AnsiMatchLen(text, i) ==
    IF text[i] # ESC \/ i + 1 > Len(text) THEN 0
    ELSE LET c == text[i + 1]
         IN  CASE c = "[" ->
                    LET j == ParamsEnd(text, i + 2)
                    IN  IF j <= Len(text) /\ text[j] \in Letters
                        THEN j - i + 1 ELSE 0
               [] c = "]" ->
                    LET j == OscEnd(text, i + 2)
                    IN  IF j = 0 THEN 0 ELSE j - i + 1
               [] c \in {"(", ")"} ->
                    IF i + 2 <= Len(text) /\ text[i + 2] \in {"A", "B", "0", "1", "2"}
                    THEN 3 ELSE 0
               [] c \in {">", "="} -> 2
               [] c = "#" ->
                    IF i + 2 <= Len(text) /\ text[i + 2] \in Digits THEN 3 ELSE 0
               [] OTHER -> 0

\* _ANSI_RE.sub("", text): left to right, non-overlapping.  A match can
\* only start at an ESC, so the scan goes from one ESC to the next.
RECURSIVE StripFrom(_, _)
StripFrom(text, i) ==
    LET escs == {k \in i..Len(text) : text[k] = ESC}
        e == Min(escs)
        n == AnsiMatchLen(text, e)
    IN  IF escs = {} THEN SubSeq(text, i, Len(text))
        ELSE SubSeq(text, i, e - 1)
             \o (IF n > 0 THEN StripFrom(text, e + n)
                 ELSE <<ESC>> \o StripFrom(text, e + 1))

strip_ansi(text) == StripFrom(text, 1)

(***************************************************************************)
(* Output cleaning: TmuxController._clean_marker_output.                   *)
(***************************************************************************)
\* prompt_prefix_re.sub("", stripped) with prompt_prefix_re = ^[\$#>]\s*
PromptPrefixSub(stripped) ==
    IF stripped # <<>> /\ stripped[1] \in PromptChars
    THEN LStrip(Tail(stripped))
    ELSE stripped

\* a variant without the third test, the one for marker text anywhere
LineIsDroppedEchoOnly(line, cmd_stripped) ==
    LET stripped == Strip(line)
        without_prompt == PromptPrefixSub(stripped)
    IN  \/ StartsWith(without_prompt, EchoQuote \o MarkerPrefix)
        \/ without_prompt = cmd_stripped

\* the three "continue" tests of the loop over the lines
LineIsDropped(line, cmd_stripped) ==
    LET stripped == Strip(line)
        without_prompt == PromptPrefixSub(stripped)
    IN  \/ StartsWith(without_prompt, EchoQuote \o MarkerPrefix)
        \/ without_prompt = cmd_stripped
        \/ Contains(stripped, MarkerPrefix)

\* cleaned: the lines that reach cleaned.append(line), in order
KeptLines(lines, cmd_stripped) ==
    LET Keep(line) == ~LineIsDropped(line, cmd_stripped)
    IN  SelectSeq(lines, Keep)

\* text = "\n".join(cleaned).strip()
FinalStrip(text) == Strip(text)

clean_marker_output(raw, command) ==
    FinalStrip(Join(KeptLines(SplitLines(raw), Strip(command))))

(***************************************************************************)
(* The search of one poll iteration of _execute_with_markers, on a         *)
(* sanitized capture buf.                                                  *)
(***************************************************************************)
\* start_idx != -1 and end_idx != -1 and end_idx > start_idx
\* a variant of the test that does not compare the two positions
MarkersFoundAnyOrder(start_idx, end_idx) ==
    start_idx # -1 /\ end_idx # -1

\* start_idx != -1 and end_idx != -1 and end_idx > start_idx
MarkersFound(start_idx, end_idx) ==
    start_idx # -1 /\ end_idx # -1 /\ end_idx > start_idx

\* a variant that searches from the front: buf.find(marker)
MarkerIndexFirst(buf, marker) == Find(buf, marker)

\* buf.rfind(marker)
MarkerIndex(buf, marker) == RFind(buf, marker)

\* [found |-> the iteration returns, output |-> what it returns]
MarkerPoll(buf, start_marker, end_marker, command) ==
    LET start_idx == MarkerIndex(buf, start_marker)
        end_idx == MarkerIndex(buf, end_marker)
    IN  IF MarkersFound(start_idx, end_idx)
        THEN [found |-> TRUE,
              output |-> clean_marker_output(
                  Slice(buf, start_idx + Len(start_marker), end_idx), command)]
        ELSE [found |-> FALSE, output |-> <<>>]


(***************************************************************************)
(* read_buffer, on the raw text the capture-pane invocation printed.       *)
(* lines = NoLines stands for lines=None.                                  *)
(***************************************************************************)
NoLines == -1

read_buffer(raw, lines) ==
    LET cleaned == strip_ansi(raw)
    IN  IF lines # NoLines
        THEN Join(LastLines(SplitLines(cleaned), lines))
        ELSE cleaned

(***************************************************************************)
(* Prompt-pattern fallback: the tests and results of one iteration of      *)
(* _execute_with_prompt, with the default prompt_pattern [\$#>] $ .        *)
(***************************************************************************)
\* prompt_re.search(text) with re.MULTILINE: a prompt character followed by a
\* space that ends a line of text
PromptSearch(text) ==
    \E i \in 1..(Len(text) - 1) :
        /\ text[i] \in PromptChars
        /\ text[i + 1] = " "
        /\ (i + 1 = Len(text) \/ text[i + 2] = NL)

\* a variant that takes the whole capture: buf
NewContentWhole(buf, pre) == buf

\* buf[len(pre_buffer):]
NewContent(buf, pre) == SliceFrom(buf, Len(pre))

\* first test: lines and prompt_re.search(lines[-1])
PromptInLastLine(new_content) ==
    LET lines == SplitLines(new_content)
    IN  lines # <<>> /\ PromptSearch(lines[Len(lines)])

\* "\n".join(lines[1:-1] if len(lines) > 1 else [])
PromptOutput(new_content) ==
    LET lines == SplitLines(new_content)
    IN  IF Len(lines) > 1 THEN Join(SubSeq(lines, 2, Len(lines) - 1)) ELSE <<>>

\* a variant of the second branch that drops the last line as the first does
VisibleOutputDropsLast(new_content) == PromptOutput(new_content)

\* the result of the second test's branch (visible last line matched)
VisibleOutput(new_content) ==
    LET lines == SplitLines(new_content)
        rest == IF lines # <<>> THEN Tail(lines) ELSE lines
        kept == IF rest # <<>> /\ PromptSearch(rest[Len(rest)])
                THEN SubSeq(rest, 1, Len(rest) - 1) ELSE rest
    IN  Join(kept)


(***************************************************************************)
(* Bounds of the model and the inputs drawn from them.                     *)
(***************************************************************************)
\* operations a caller performs on one handle after constructing it
MaxOps == 1
\* the largest timeout a caller passes, in clock ticks
MaxTimeout == 3
\* poll_interval, in clock ticks
PollTicks == 2
\* the longest a succeeding tmux invocation takes, in clock ticks
MaxToolTicks == 1
\* rows of the pane that a capture without history shows
ScreenRows == 2

\* the session the handle is constructed for, and another one
MySession == <<"s">>
OtherSession == <<"t">>

\* commands a caller submits, and what the remote program prints for them
CmdLs == <<"l", "s">>
Commands == {CmdLs}
\* the command of a second caller of the same pane, told apart by its output
CmdPeer == <<"e", "c", "h", "o", " ", "'", "c", "'">>
SendTexts == {<<"q">>}
LineCounts == {NoLines, 0, 1}

\* uuid.uuid4().hex[:12]: twelve hexadecimal digits, different for every
\* call (the n-th draw is written c0ffee00000n)
HexDigit(n) == <<"0", "1", "2", "3", "4", "5", "6", "7", "8", "9">>[n + 1]
UidOf(n) == <<"c", "0", "f", "f", "e", "e", "0", "0", "0", "0", "0", HexDigit(n)>>
StaleUid == <<"d", "e", "a", "d", "b", "e", "e", "f", "0", "0", "0", "0">>
PeerUid == <<"f", "a", "c", "e", "f", "a", "c", "e", "0", "0", "0", "0">>

Prompt == <<"$", " ">>

\* scroll-back a pane may hold before the handle is used: nothing, or the
\* region of an earlier marker run, with a colour sequence in it
StaleBlock ==
    Prompt \o EchoLine(StartMarker(StaleUid)) \o <<NL>>
    \o StartMarker(StaleUid) \o <<NL>>
    \o <<ESC, "[", "3", "2", "m">> \o <<"b", NL>> \o <<ESC, "[", "0", "m">>
    \o Prompt \o EchoLine(EndMarker(StaleUid)) \o <<NL>>
    \o EndMarker(StaleUid) \o <<NL>>

InitPanes == {Prompt, StaleBlock \o Prompt}

\* inputs of the text functions: buffers prefix + start_marker + payload +
\* end_marker + suffix for the token LabUid, and blocks of output lines
MaxOutLines == 2
LabUid == UidOf(1)
LabStale ==
    StartMarker(LabUid) \o <<NL, "o", NL>> \o Prompt
    \o EchoLine(EndMarker(LabUid)) \o <<NL>> \o EndMarker(LabUid) \o <<NL>>
Prefixes ==
    {<<>>, Prompt, LabStale \o Prompt, StaleBlock \o Prompt,
     EndMarker(LabUid) \o <<NL>>}
Payloads ==
    {<<"a">>, <<NL, "a", NL>>,
     <<NL>> \o Prompt \o CmdLs \o <<NL, "a", NL>> \o Prompt
         \o EchoLine(EndMarker(LabUid)) \o <<NL>>,
     <<NL, "a", NL>> \o StartMarker(LabUid) \o <<NL, "b", NL>>}
Suffixes ==
    {<<>>, <<NL>> \o Prompt,
     <<NL, "c", NL>> \o EndMarker(LabUid) \o <<NL>> \o Prompt,
     <<NL>> \o StartMarker(LabUid) \o <<NL>>}
OutLines == {<<"a">>, <<"b">>, <<" ", "a">>, CmdLs}
OutputLists == UNION {[1..n -> OutLines] : n \in 1..MaxOutLines}

\* raw captures given to read_buffer, and the line counts asked of it
MaxRawLen == 4
MaxCount == 2
RawChars == {ESC, "[", ">", "m", NL}
RawTexts == UNION {[1..n -> RawChars] : n \in 0..MaxRawLen}
ReadCounts == {NoLines} \cup 0..MaxCount

\* what one iteration of the prompt fallback looks at: new_content of its
\* history capture, and the visible last line read after it
NewContents ==
    {<<>>,
     CmdLs \o <<NL>>,
     CmdLs \o <<NL, "a", NL>>,
     CmdLs \o <<NL, "a", NL, "b", NL>>,
     CmdLs \o <<NL, "a", NL>> \o Prompt,
     CmdLs \o <<NL>> \o Prompt,
     Prompt}
VisibleLines == {<<>>, <<"a">>, Prompt}

(***************************************************************************)
(* Multiplexer Gateway: TmuxController._run_tmux.  What subprocess.run     *)
(* does is the environment's choice.                                       *)
(***************************************************************************)
ProcessResults == {"ok", "FileNotFoundError", "TimeoutExpired", "nonzero"}

NoError == "none"

\* the exception _run_tmux raises for a result of subprocess.run; all three
\* failures are raised as TmuxError
\* a variant of _run_tmux that does not look at the exit status
RunTmuxIgnoresStatus(res) ==
    CASE res = "FileNotFoundError" -> "TmuxError"
      [] res = "TimeoutExpired" -> "TmuxError"
      [] OTHER -> NoError

RunTmuxRaises(res) ==
    CASE res = "FileNotFoundError" -> "TmuxError"
      [] res = "TimeoutExpired" -> "TmuxError"
      [] res = "nonzero" -> "TmuxError"
      [] OTHER -> NoError

\* exception classes and their bases
BaseOf(cls) ==
    CASE cls = "SessionNotFoundError" -> "TmuxError"
      [] cls = "CommandTimeoutError" -> "TmuxError"
      [] OTHER -> "Exception"

\* an except clause for handler catches an exception of class cls
Catches(handler, cls) == cls = handler \/ BaseOf(cls) = handler

(***************************************************************************)
(* State.                                                                  *)
(***************************************************************************)
VARIABLES
    pc,          \* where the caller is
    target,      \* TmuxController._target
    call,        \* the locals of the execute_and_wait call in progress or just ended
    now,         \* time.monotonic(), in ticks
    outcome,     \* how the last operation ended (none while a call is in progress)
    exit,        \* the run-command process: exit code, stdout, stderr
    frontend,    \* TRUE when the caller is run_command.main
    args,        \* the parsed command line of run_command
    ops,         \* operations begun so far
    log,         \* the tmux invocations made so far, in order
    asked,       \* what the caller asked for, one entry per operation
    sessions,    \* the sessions tmux knows
    pane,        \* the text of the pane, scroll-back included
    typed,       \* keys sent without Enter, not yet submitted
    queue,       \* submitted lines the shell has not read yet
    running,     \* the line the shell is executing
    executed,    \* the tags of the lines the shell has finished
    lab,         \* inputs and results of the text functions (SpecText)
    peer         \* a second caller's execute_and_wait on the same pane (SpecTwo)

vars == <<pc, target, call, now, outcome, exit, frontend, args, ops, log, asked,
          sessions, pane, typed, queue, running, executed, lab, peer>>

callerVars == <<pc, target, call, now, outcome, exit, frontend, args, ops, log, asked>>
envVars == <<sessions, pane, typed, queue, running, executed, peer>>

NoCall ==
    [kind |-> "none", command |-> <<>>, timeout |-> 0, uid |-> <<>>,
     deadline |-> 0, pre_buffer |-> <<>>, buf |-> <<>>, id |-> 0,
     polls |-> 0, lastCheck |-> 0, spent |-> 0]

NoOutcome ==
    [kind |-> "none", value |-> <<>>, names |-> <<>>, flag |-> FALSE, op |-> "none"]
NoArgs == [command |-> <<>>, timeout |-> 0, no_markers |-> FALSE]
NoExit == [code |-> -1, stdout |-> <<>>, stderr |-> "none"]
NoLine == [text |-> <<>>, tag |-> <<0, "none">>, echoed |-> FALSE]
NoLab == [stage |-> "none", prefix |-> <<>>, payload |-> <<>>, suffix |-> <<>>,
          command |-> <<>>, lines |-> <<>>, found |-> FALSE, output |-> <<>>,
          raw |-> <<>>, count |-> NoLines, visible |-> <<>>, by |-> "none"]
NoPeer == [pc |-> "idle", command |-> <<>>, timeout |-> 0, uid |-> <<>>,
           deadline |-> 0, kind |-> "none", value |-> <<>>, overlap |-> FALSE]


(***************************************************************************)
(* The pane and the remote shell: the environment of the handle.  The      *)
(* shell reads the submitted lines one after another; the line editor      *)
(* draws a line when the shell reads it; while a line is executing the     *)
(* terminal may echo the keys typed ahead of it.                           *)
(***************************************************************************)
\* what executing a line prints: echo prints its quoted argument, ls prints
\* one line, anything else prints nothing
ProgramOutput(line) ==
    IF StartsWith(line, EchoQuote) /\ Len(line) > Len(EchoQuote)
       /\ line[Len(line)] = "'"
    THEN SubSeq(line, Len(EchoQuote) + 1, Len(line) - 1) \o <<NL>>
    ELSE IF line = CmdLs THEN <<"a", NL>>
    ELSE <<>>

\* the rows of the pane: its lines, and the row the cursor is on
Rows(text) ==
    IF text = <<>> \/ text[Len(text)] = NL
    THEN Append(SplitLines(text), <<>>)
    ELSE SplitLines(text)

\* what capture-pane -p prints: every row and a line break after it; all
\* rows with -S -, the rows of the screen without
CaptureStdout(text, history) ==
    LET rows == Rows(text)
        shown == IF history THEN rows ELSE LastLines(rows, ScreenRows)
    IN  Join(shown) \o <<NL>>

\* what list-sessions -F "#{session_name}" prints
SessionsStdout(known) ==
    (IF MySession \in known THEN MySession \o <<NL>> ELSE <<>>)
    \o (IF OtherSession \in known THEN OtherSession \o <<NL>> ELSE <<>>)

\* a variant in which a submitted line overtakes the lines still waiting
DeliverAhead(text, enter, tag) ==
    IF enter
    THEN /\ queue' = <<[text |-> typed \o text, tag |-> tag, echoed |-> FALSE]>>
                     \o queue
         /\ typed' = <<>>
    ELSE /\ typed' = typed \o text
         /\ queue' = queue

\* the keys of a succeeding send-keys reach the pane's input
Deliver(text, enter, tag) ==
    IF enter
    THEN /\ queue' = Append(queue, [text |-> typed \o text, tag |-> tag,
                                    echoed |-> FALSE])
         /\ typed' = <<>>
    ELSE /\ typed' = typed \o text
         /\ queue' = queue

ShellStart ==
    /\ running = NoLine
    /\ queue # <<>>
    /\ pane' = pane \o Head(queue).text \o <<NL>>
    /\ running' = Head(queue)
    /\ queue' = Tail(queue)
    /\ UNCHANGED <<sessions, typed, executed, lab, peer>>
    /\ UNCHANGED callerVars

ShellFinish ==
    /\ running # NoLine
    /\ pane' = pane \o ProgramOutput(running.text) \o Prompt
    /\ executed' = executed \cup {running.tag}
    /\ running' = NoLine
    /\ UNCHANGED <<sessions, typed, queue, lab, peer>>
    /\ UNCHANGED callerVars

TtyEcho ==
    /\ running # NoLine
    /\ \E i \in 1..Len(queue) :
          /\ ~queue[i].echoed
          /\ \A j \in 1..(i - 1) : queue[j].echoed
          /\ pane' = pane \o queue[i].text \o <<NL>>
          /\ queue' = [queue EXCEPT ![i].echoed = TRUE]
    /\ UNCHANGED <<sessions, typed, running, executed, lab, peer>>
    /\ UNCHANGED callerVars


(***************************************************************************)
(* Outcomes of operations, and the tmux invocations they make.             *)
(***************************************************************************)
\* a variant in which a failing operation hands back a partial result
RaisedAsPartial(cls, op) == [NoOutcome EXCEPT !.kind = "partial", !.op = op]

Raised(cls, op) == [NoOutcome EXCEPT !.kind = cls, !.op = op]
Returned(op, text) == [NoOutcome EXCEPT !.kind = "output", !.op = op, !.value = text]

\* one invocation of _run_tmux, as the log keeps it: the tmux subcommand,
\* the target and keys given to it, and what subprocess.run did
Invocation(op, tgt, text, enter, history, res, by) ==
    [op |-> op, target |-> tgt, text |-> text, enter |-> enter,
     history |-> history, res |-> res, by |-> by]

\* a variant of send_keys that never adds "Enter"
SendKeysArgsNoEnter(tgt, text, enter, res, by) ==
    Invocation("send-keys", tgt, text, FALSE, FALSE, res, by)

\* send_keys: ["send-keys", "-t", target, text] and "Enter" if enter
SendKeysArgs(tgt, text, enter, res, by) ==
    Invocation("send-keys", tgt, text, enter, FALSE, res, by)

\* read_buffer: ["capture-pane", "-t", target, "-p"] and "-S", "-" if history
CaptureArgs(tgt, history, res, by) ==
    Invocation("capture-pane", tgt, <<>>, FALSE, history, res, by)

Key(text, enter) == [text |-> text, enter |-> enter]

\* what a caller asked for with one operation: the operation, the text and
\* Enter flag it passed, and the token drawn for it
Ask(op, text, enter, uid) == [op |-> op, text |-> text, enter |-> enter, uid |-> uid]

(***************************************************************************)
(* list_sessions, session_exists, _session_exists and __post_init__.       *)
(***************************************************************************)
NonBlank(line) == Strip(line) # <<>>

\* a variant of the except clause that names a narrower class
ListSessionsCatchesNarrow(cls) == Catches("SessionNotFoundError", cls)

\* the except clause of list_sessions
ListSessionsCatches(cls) == Catches("TmuxError", cls)

\* [raised |-> what list_sessions raises, names |-> what it returns]
list_sessions(res, stdout) ==
    LET cls == RunTmuxRaises(res)
    IN  IF cls = NoError
        THEN [raised |-> NoError, names |-> SelectSeq(SplitLines(stdout), NonBlank)]
        ELSE IF ListSessionsCatches(cls)
        THEN [raised |-> NoError, names |-> <<>>]
        ELSE [raised |-> cls, names |-> <<>>]

\* name in TmuxController.list_sessions()
session_exists(name, res, stdout) ==
    LET ls == list_sessions(res, stdout)
    IN  [raised |-> ls.raised,
         flag |-> \E i \in 1..Len(ls.names) : ls.names[i] = name]

\* a variant of the except clause that names a narrower class
SessionCheckCatchesNarrow(cls) == Catches("CommandTimeoutError", cls)

\* the except clause of _session_exists
SessionCheckCatches(cls) == Catches("TmuxError", cls)

\* _session_exists: [raised |-> what it raises, flag |-> what it returns]
target_session_exists(res) ==
    LET cls == RunTmuxRaises(res)
    IN  IF cls = NoError THEN [raised |-> NoError, flag |-> TRUE]
        ELSE IF SessionCheckCatches(cls) THEN [raised |-> NoError, flag |-> FALSE]
        ELSE [raised |-> cls, flag |-> FALSE]

\* __post_init__: what it raises, the names in its message, and whether it
\* went on to list the sessions
post_init(has_res, list_res, stdout) ==
    LET chk == target_session_exists(has_res)
        ls == list_sessions(list_res, stdout)
    IN  IF chk.raised # NoError
        THEN [raised |-> chk.raised, names |-> <<>>, listed |-> FALSE]
        ELSE IF chk.flag
        THEN [raised |-> NoError, names |-> <<>>, listed |-> FALSE]
        ELSE IF ls.raised # NoError
        THEN [raised |-> ls.raised, names |-> <<>>, listed |-> TRUE]
        ELSE [raised |-> "SessionNotFoundError", names |-> ls.names, listed |-> TRUE]

(***************************************************************************)
(* run_command.main: the command line, and the exit of the process.        *)
(***************************************************************************)
\* parser.parse_args(): argparse ends the process with status 2 and a usage
\* message on stderr when the command line is not accepted
parse_args(accepted) ==
    IF accepted THEN NoExit
    ELSE [code |-> 2, stdout |-> <<>>, stderr |-> "usage:"]

\* print(output), or the except clause that catches what was raised
MainExit(o) ==
    IF o.kind = "output"
    THEN [code |-> 0, stdout |-> o.value \o <<NL>>, stderr |-> "none"]
    ELSE IF Catches("CommandTimeoutError", o.kind)
    THEN [code |-> 2, stdout |-> <<>>, stderr |-> "TIMEOUT:"]
    ELSE IF Catches("TmuxError", o.kind)
    THEN [code |-> 1, stdout |-> <<>>, stderr |-> "ERROR:"]
    ELSE [code |-> 1, stdout |-> <<>>, stderr |-> "Traceback"]

\* an operation ends with outcome o: run_command.main prints and exits, any
\* other caller goes on from restPc
Finish(o, restPc) ==
    /\ outcome' = o
    /\ IF frontend
       THEN pc' = "exited" /\ exit' = MainExit(o)
       ELSE pc' = restPc /\ exit' = exit

\* a variant of the loop test: while time.monotonic() <= deadline
DeadlinePassedLate(time, deadline) == ~(time <= deadline)

\* while time.monotonic() < deadline
DeadlinePassed(time, deadline) == ~(time < deadline)


(***************************************************************************)
(* Initial state.                                                          *)
(***************************************************************************)
Init ==
    /\ pc = "boot"
    /\ target = <<>>
    /\ call = NoCall
    /\ now = 0
    /\ outcome = NoOutcome
    /\ exit = NoExit
    /\ frontend = FALSE
    /\ args = NoArgs
    /\ ops = 0
    /\ log = <<>>
    /\ asked = <<>>
    /\ sessions \in {{}, {MySession, OtherSession}}
    /\ pane \in InitPanes
    /\ typed = <<>>
    /\ queue = <<>>
    /\ running = NoLine
    /\ executed = {}
    /\ lab = NoLab
    /\ peer = NoPeer

(***************************************************************************)
(* Construction of the handle.                                             *)
(***************************************************************************)
\* TmuxController(session_name): __post_init__ stores the target and checks
\* the session; the caller goes on from okPc when nothing is raised
ConstructStep(has_res, list_res, okPc) ==
    LET r == post_init(has_res, list_res, SessionsStdout(sessions))
        id == ops + 1
        checks == <<Invocation("has-session", MySession, <<>>, FALSE, FALSE, has_res, id)>>
        lists == IF r.listed
                 THEN <<Invocation("list-sessions", <<>>, <<>>, FALSE, FALSE, list_res, id)>>
                 ELSE <<>>
    IN  /\ ops' = id
        /\ asked' = Append(asked, Ask("other", <<>>, FALSE, <<>>))
        /\ target' = MySession
        /\ log' = log \o checks \o lists
        /\ IF r.raised = NoError
           THEN /\ pc' = okPc
                /\ outcome' = [NoOutcome EXCEPT !.kind = "handle", !.op = "construct"]
                /\ exit' = exit
           ELSE Finish([Raised(r.raised, "construct") EXCEPT !.names = r.names],
                       "noHandle")
        /\ UNCHANGED <<call, now, frontend, args, lab>>
        /\ UNCHANGED envVars

Construct ==
    /\ pc = "boot"
    /\ \E has_res \in ProcessResults, list_res \in ProcessResults :
          ConstructStep(has_res, list_res, "idle")

(***************************************************************************)
(* The operations of a caller that holds a handle.                         *)
(***************************************************************************)
MayBegin == ops < MaxOps + 1

\* send_keys(text, enter=enter)
SendKeysOp ==
    /\ pc = "idle"
    /\ MayBegin
    /\ \E text \in SendTexts, enter \in BOOLEAN, res \in ProcessResults :
          LET id == ops + 1
          IN  /\ ops' = id
              /\ asked' = Append(asked, Ask("send_keys", text, enter, <<>>))
              /\ log' = Append(log, SendKeysArgs(target, text, enter, res, id))
              /\ IF RunTmuxRaises(res) # NoError
                 THEN /\ Finish(Raised(RunTmuxRaises(res), "send_keys"), "idle")
                      /\ UNCHANGED <<typed, queue>>
                 ELSE /\ Finish([NoOutcome EXCEPT !.kind = "done", !.op = "send_keys"],
                                "idle")
                      /\ Deliver(text, enter, <<id, "keys">>)
    /\ call' = NoCall
    /\ UNCHANGED <<target, now, frontend, args, lab>>
    /\ UNCHANGED <<sessions, pane, running, executed, peer>>

\* read_buffer(lines, history=history)
ReadBufferOp ==
    /\ pc = "idle"
    /\ MayBegin
    /\ \E lines \in LineCounts, history \in BOOLEAN, res \in ProcessResults :
          LET id == ops + 1
          IN  /\ ops' = id
              /\ asked' = Append(asked, Ask("other", <<>>, FALSE, <<>>))
              /\ log' = Append(log, CaptureArgs(target, history, res, id))
              /\ IF RunTmuxRaises(res) # NoError
                 THEN Finish(Raised(RunTmuxRaises(res), "read_buffer"), "idle")
                 ELSE Finish(Returned("read_buffer",
                                      read_buffer(CaptureStdout(pane, history), lines)),
                             "idle")
    /\ call' = NoCall
    /\ UNCHANGED <<target, now, frontend, args, lab>>
    /\ UNCHANGED envVars

\* TmuxController.list_sessions()
ListSessionsOp ==
    /\ pc \in {"boot", "idle"}
    /\ MayBegin
    /\ \E res \in ProcessResults :
          LET id == ops + 1
              r == list_sessions(res, SessionsStdout(sessions))
          IN  /\ ops' = id
              /\ asked' = Append(asked, Ask("other", <<>>, FALSE, <<>>))
              /\ log' = Append(log, Invocation("list-sessions", <<>>, <<>>,
                                               FALSE, FALSE, res, id))
              /\ IF r.raised # NoError
                 THEN Finish(Raised(r.raised, "list_sessions"), pc)
                 ELSE Finish([NoOutcome EXCEPT !.kind = "list", !.op = "list_sessions",
                                               !.names = r.names], pc)
    /\ call' = NoCall
    /\ UNCHANGED <<target, now, frontend, args, lab>>
    /\ UNCHANGED envVars

\* TmuxController.session_exists(name)
SessionExistsOp ==
    /\ pc \in {"boot", "idle"}
    /\ MayBegin
    /\ \E name \in {MySession, OtherSession}, res \in ProcessResults :
          LET id == ops + 1
              r == session_exists(name, res, SessionsStdout(sessions))
          IN  /\ ops' = id
              /\ asked' = Append(asked, Ask("other", <<>>, FALSE, <<>>))
              /\ log' = Append(log, Invocation("list-sessions", <<>>, <<>>,
                                               FALSE, FALSE, res, id))
              /\ IF r.raised # NoError
                 THEN Finish(Raised(r.raised, "session_exists"), pc)
                 ELSE Finish([NoOutcome EXCEPT !.kind = "bool", !.op = "session_exists",
                                               !.flag = r.flag, !.value = name], pc)
    /\ call' = NoCall
    /\ UNCHANGED <<target, now, frontend, args, lab>>
    /\ UNCHANGED envVars


(***************************************************************************)
(* execute_and_wait.                                                       *)
(***************************************************************************)
\* the call is entered: execute_and_wait picks the strategy, and
\* _execute_with_markers draws its token
ExecBegin(command, timeout, use_markers) ==
    LET id == ops + 1
        uid == IF use_markers THEN UidOf(id) ELSE <<>>
    IN  /\ ops' = id
        /\ call' = [NoCall EXCEPT !.kind = IF use_markers THEN "markers" ELSE "prompt",
                                  !.command = command, !.timeout = timeout,
                                  !.uid = uid, !.id = id]
        /\ asked' = Append(asked, Ask(IF use_markers THEN "markers" ELSE "prompt",
                                      command, TRUE, uid))
        /\ pc' = IF use_markers THEN "m_start" ELSE "p_pre"
        /\ outcome' = NoOutcome
        /\ UNCHANGED <<target, now, exit, frontend, args, log, lab>>
        /\ UNCHANGED envVars

ExecuteAndWait ==
    /\ pc = "idle"
    /\ MayBegin
    /\ \E command \in Commands, timeout \in 0..MaxTimeout, use_markers \in BOOLEAN :
          ExecBegin(command, timeout, use_markers)

\* self.send_keys(text, enter=True) inside the call; a succeeding last send
\* is followed by deadline = time.monotonic() + timeout
SendStep(text, role, okPc, setsDeadline) ==
    \E res \in ProcessResults :
        /\ log' = Append(log, SendKeysArgs(target, text, TRUE, res, call.id))
        /\ IF RunTmuxRaises(res) # NoError
           THEN /\ Finish(Raised(RunTmuxRaises(res), "execute_and_wait"), "idle")
                /\ UNCHANGED <<call, typed, queue>>
           ELSE /\ Deliver(text, TRUE, <<call.id, role>>)
                /\ pc' = okPc
                /\ call' = IF setsDeadline
                           THEN [call EXCEPT !.deadline = now + call.timeout]
                           ELSE call
                /\ UNCHANGED <<outcome, exit>>
        /\ UNCHANGED <<target, now, frontend, args, ops, asked, lab>>
        /\ UNCHANGED <<sessions, pane, running, executed, peer>>

MarkerSendStart ==
    /\ pc = "m_start"
    /\ SendStep(EchoLine(StartMarker(call.uid)), "start", "m_cmd", FALSE)

MarkerSendCommand ==
    /\ pc = "m_cmd"
    /\ SendStep(call.command, "cmd", "m_end", FALSE)

MarkerSendEnd ==
    /\ pc = "m_end"
    /\ SendStep(EchoLine(EndMarker(call.uid)), "end", "m_loop", TRUE)

\* one pass of the while loop of _execute_with_markers up to its sleep
MarkerLoop ==
    /\ pc = "m_loop"
    /\ IF DeadlinePassed(now, call.deadline)
       THEN /\ Finish(Raised("CommandTimeoutError", "execute_and_wait"), "idle")
            /\ UNCHANGED <<call, now, log>>
       ELSE \E res \in ProcessResults, d \in 0..MaxToolTicks :
               /\ log' = Append(log, CaptureArgs(target, TRUE, res, call.id))
               /\ IF RunTmuxRaises(res) # NoError
                  THEN /\ Finish(Raised(RunTmuxRaises(res), "execute_and_wait"), "idle")
                       /\ UNCHANGED <<call, now>>
                  ELSE LET buf == read_buffer(CaptureStdout(pane, TRUE), NoLines)
                           r == MarkerPoll(buf, StartMarker(call.uid),
                                           EndMarker(call.uid), call.command)
                       IN  /\ now' = now + d
                           /\ call' = [call EXCEPT !.buf = buf, !.polls = @ + 1,
                                                   !.lastCheck = now, !.spent = d]
                           /\ IF r.found
                              THEN Finish(Returned("execute_and_wait", r.output), "idle")
                              ELSE pc' = "m_sleep" /\ UNCHANGED <<outcome, exit>>
    /\ UNCHANGED <<target, frontend, args, ops, asked, lab>>
    /\ UNCHANGED envVars

\* time.sleep(interval)
MarkerSleep ==
    /\ pc = "m_sleep"
    /\ now' = now + PollTicks
    /\ pc' = "m_loop"
    /\ UNCHANGED <<target, call, outcome, exit, frontend, args, ops, log, asked, lab>>
    /\ UNCHANGED envVars

\* pre_buffer = self.read_buffer(history=True)
PromptPre ==
    /\ pc = "p_pre"
    /\ \E res \in ProcessResults :
          /\ log' = Append(log, CaptureArgs(target, TRUE, res, call.id))
          /\ IF RunTmuxRaises(res) # NoError
             THEN /\ Finish(Raised(RunTmuxRaises(res), "execute_and_wait"), "idle")
                  /\ UNCHANGED call
             ELSE /\ call' = [call EXCEPT !.pre_buffer =
                                  read_buffer(CaptureStdout(pane, TRUE), NoLines)]
                  /\ pc' = "p_send"
                  /\ UNCHANGED <<outcome, exit>>
    /\ UNCHANGED <<target, now, frontend, args, ops, asked, lab>>
    /\ UNCHANGED envVars

PromptSend ==
    /\ pc = "p_send"
    /\ SendStep(call.command, "cmd", "p_loop", TRUE)

\* the loop test of _execute_with_prompt and the sleep that opens the body
PromptLoop ==
    /\ pc = "p_loop"
    /\ IF DeadlinePassed(now, call.deadline)
       THEN /\ Finish(Raised("CommandTimeoutError", "execute_and_wait"), "idle")
            /\ UNCHANGED <<call, now>>
       ELSE /\ now' = now + PollTicks
            /\ call' = [call EXCEPT !.lastCheck = now, !.spent = 0]
            /\ pc' = "p_read"
            /\ UNCHANGED <<outcome, exit>>
    /\ UNCHANGED <<target, frontend, args, ops, log, asked, lab>>
    /\ UNCHANGED envVars

\* buf = self.read_buffer(history=True) and the test of its last line
PromptRead ==
    /\ pc = "p_read"
    /\ \E res \in ProcessResults, d \in 0..MaxToolTicks :
          /\ log' = Append(log, CaptureArgs(target, TRUE, res, call.id))
          /\ IF RunTmuxRaises(res) # NoError
             THEN /\ Finish(Raised(RunTmuxRaises(res), "execute_and_wait"), "idle")
                  /\ UNCHANGED <<call, now>>
             ELSE LET buf == read_buffer(CaptureStdout(pane, TRUE), NoLines)
                      new_content == NewContent(buf, call.pre_buffer)
                  IN  /\ now' = now + d
                      /\ call' = [call EXCEPT !.buf = buf, !.polls = @ + 1,
                                              !.spent = @ + d]
                      /\ IF PromptInLastLine(new_content)
                         THEN Finish(Returned("execute_and_wait",
                                              PromptOutput(new_content)), "idle")
                         ELSE pc' = "p_visible" /\ UNCHANGED <<outcome, exit>>
    /\ UNCHANGED <<target, frontend, args, ops, asked, lab>>
    /\ UNCHANGED envVars

\* visible = self.read_buffer(lines=1) and the test of it
PromptVisible ==
    /\ pc = "p_visible"
    /\ \E res \in ProcessResults, d \in 0..MaxToolTicks :
          /\ log' = Append(log, CaptureArgs(target, FALSE, res, call.id))
          /\ IF RunTmuxRaises(res) # NoError
             THEN /\ Finish(Raised(RunTmuxRaises(res), "execute_and_wait"), "idle")
                  /\ UNCHANGED <<call, now>>
             ELSE LET visible == read_buffer(CaptureStdout(pane, FALSE), 1)
                  IN  /\ now' = now + d
                      /\ call' = [call EXCEPT !.spent = @ + d]
                      /\ IF PromptSearch(visible)
                         THEN Finish(Returned("execute_and_wait",
                                  VisibleOutput(NewContent(call.buf, call.pre_buffer))),
                                  "idle")
                         ELSE pc' = "p_loop" /\ UNCHANGED <<outcome, exit>>
    /\ UNCHANGED <<target, frontend, args, ops, asked, lab>>
    /\ UNCHANGED envVars

(***************************************************************************)
(* run_command.main.                                                       *)
(***************************************************************************)
\* args = parser.parse_args()
MainParse ==
    /\ pc = "boot"
    /\ ops = 0
    /\ \E accepted \in BOOLEAN, command \in Commands,
          timeout \in 0..MaxTimeout, no_markers \in BOOLEAN :
          /\ frontend' = TRUE
          /\ IF accepted
             THEN /\ pc' = "main_ctor"
                  /\ args' = [command |-> command, timeout |-> timeout,
                              no_markers |-> no_markers]
                  /\ exit' = exit
             ELSE /\ pc' = "exited"
                  /\ args' = args
                  /\ exit' = parse_args(accepted)
    /\ UNCHANGED <<target, call, now, outcome, ops, log, asked, lab>>
    /\ UNCHANGED envVars

\* ctrl = TmuxController(args.session, default_timeout=args.timeout)
MainConstruct ==
    /\ pc = "main_ctor"
    /\ \E has_res \in ProcessResults, list_res \in ProcessResults :
          ConstructStep(has_res, list_res, "main_exec")

\* ctrl.execute_and_wait(args.command, use_markers=not args.no_markers)
MainExecute ==
    /\ pc = "main_exec"
    /\ ExecBegin(args.command, args.timeout, ~args.no_markers)

(***************************************************************************)
(* The specification of the handle, its caller and the pane.               *)
(***************************************************************************)
Next ==
    \/ Construct
    \/ SendKeysOp
    \/ ReadBufferOp
    \/ ListSessionsOp
    \/ SessionExistsOp
    \/ ExecuteAndWait
    \/ MarkerSendStart
    \/ MarkerSendCommand
    \/ MarkerSendEnd
    \/ MarkerLoop
    \/ MarkerSleep
    \/ PromptPre
    \/ PromptSend
    \/ PromptLoop
    \/ PromptRead
    \/ PromptVisible
    \/ MainParse
    \/ MainConstruct
    \/ MainExecute
    \/ ShellStart
    \/ ShellFinish
    \/ TtyEcho

Spec == Init /\ [][Next]_vars

\* where a caller is while a call of execute_and_wait is in progress
InCall ==
    pc \in {"m_start", "m_cmd", "m_end", "m_loop", "m_sleep",
            "p_pre", "p_send", "p_loop", "p_read", "p_visible"}

\* where a step of a call leaves the caller
AfterStep == {"idle", "exited", "m_cmd", "m_end", "m_loop", "m_sleep",
              "p_send", "p_loop", "p_read", "p_visible"}

\* a call in progress moves on.  The code of a call is sequential, every
\* tmux invocation returns within the 10 s of _run_tmux and every sleep
\* returns; each step of a call moves the caller and nothing else does.
\* Nothing is assumed of the pane: the shell may never start or finish a
\* line.
CallMoves == InCall /\ pc' \in AfterStep \ {pc}

SpecLive == Init /\ [][Next]_vars /\ WF_pc(CallMoves)

(***************************************************************************)
(* Two callers of one pane.  A second caller, holding a handle of its own  *)
(* for the same target, runs _execute_with_markers while the first one     *)
(* does; nothing in the code orders the tmux invocations of the two.  The  *)
(* clock is the same for both, and a sleep of either lets it advance.  The *)
(* log keeps the invocations of the first caller's handle only; of the     *)
(* second caller's it is kept whether a key submission was made while the  *)
(* first caller's call was in progress with its start marker sent.         *)
(***************************************************************************)
\* the second caller's lines are tagged as submitted by operation PeerId
PeerId == 0
\* the timeouts the two callers pass, and what subprocess.run does for the
\* second caller
TwoTimeouts == {1}
PeerResults == {"ok", "nonzero"}

\* the first caller is past its first key submission
StartSent == pc \in {"m_cmd", "m_end", "m_loop", "m_sleep"}

\* the second caller enters execute_and_wait(CmdPeer, timeout=timeout)
PeerExecute ==
    /\ peer.pc = "idle"
    /\ \E timeout \in TwoTimeouts :
          peer' = [NoPeer EXCEPT !.pc = "m_start", !.command = CmdPeer,
                                 !.timeout = timeout, !.uid = PeerUid]
    /\ UNCHANGED callerVars
    /\ UNCHANGED <<sessions, pane, typed, queue, running, executed, lab>>

\* self.send_keys(text, enter=True) inside the second caller's call
PeerSendStep(text, role, okPc, setsDeadline) ==
    \E res \in PeerResults :
        /\ IF RunTmuxRaises(res) # NoError
           THEN /\ peer' = [peer EXCEPT !.pc = "done", !.kind = RunTmuxRaises(res)]
                /\ UNCHANGED <<typed, queue>>
           ELSE /\ Deliver(text, TRUE, <<PeerId, role>>)
                /\ peer' = [peer EXCEPT !.pc = okPc,
                                        !.overlap = @ \/ StartSent,
                                        !.deadline = IF setsDeadline
                                                     THEN now + peer.timeout ELSE @]
        /\ UNCHANGED callerVars
        /\ UNCHANGED <<sessions, pane, running, executed, lab>>

PeerSendStart ==
    /\ peer.pc = "m_start"
    /\ PeerSendStep(EchoLine(StartMarker(peer.uid)), "start", "m_cmd", FALSE)

PeerSendCommand ==
    /\ peer.pc = "m_cmd"
    /\ PeerSendStep(peer.command, "cmd", "m_end", FALSE)

PeerSendEnd ==
    /\ peer.pc = "m_end"
    /\ PeerSendStep(EchoLine(EndMarker(peer.uid)), "end", "m_loop", TRUE)

\* one pass of the second caller's while loop up to its sleep
PeerLoop ==
    /\ peer.pc = "m_loop"
    /\ IF DeadlinePassed(now, peer.deadline)
       THEN peer' = [peer EXCEPT !.pc = "done", !.kind = "CommandTimeoutError"]
       ELSE \E res \in PeerResults :
               IF RunTmuxRaises(res) # NoError
               THEN peer' = [peer EXCEPT !.pc = "done", !.kind = RunTmuxRaises(res)]
               ELSE LET buf == read_buffer(CaptureStdout(pane, TRUE), NoLines)
                        r == MarkerPoll(buf, StartMarker(peer.uid),
                                        EndMarker(peer.uid), peer.command)
                    IN  peer' = IF r.found
                                THEN [peer EXCEPT !.pc = "done", !.kind = "output",
                                                  !.value = r.output]
                                ELSE [peer EXCEPT !.pc = "m_sleep"]
    /\ UNCHANGED callerVars
    /\ UNCHANGED <<sessions, pane, typed, queue, running, executed, lab>>

\* the second caller's time.sleep(interval)
PeerSleep ==
    /\ peer.pc = "m_sleep"
    /\ now' = now + PollTicks
    /\ peer' = [peer EXCEPT !.pc = "m_loop"]
    /\ UNCHANGED <<pc, target, call, outcome, exit, frontend, args, ops, log,
                   asked, lab>>
    /\ UNCHANGED <<sessions, pane, typed, queue, running, executed>>

\* the first caller's execute_and_wait(command, use_markers=True)
ExecuteMarkers ==
    /\ pc = "idle"
    /\ MayBegin
    /\ \E timeout \in TwoTimeouts : ExecBegin(CmdLs, timeout, TRUE)

\* the first caller has constructed its handle for MySession, the second
\* caller holds one too, and the pane shows a prompt
InitTwo ==
    /\ pc = "idle"
    /\ target = MySession
    /\ call = NoCall
    /\ now = 0
    /\ outcome = [NoOutcome EXCEPT !.kind = "handle", !.op = "construct"]
    /\ exit = NoExit
    /\ frontend = FALSE
    /\ args = NoArgs
    /\ ops = 1
    /\ log = <<Invocation("has-session", MySession, <<>>, FALSE, FALSE, "ok", 1)>>
    /\ asked = <<Ask("other", <<>>, FALSE, <<>>)>>
    /\ sessions = {MySession, OtherSession}
    /\ pane = Prompt
    /\ typed = <<>>
    /\ queue = <<>>
    /\ running = NoLine
    /\ executed = {}
    /\ lab = NoLab
    /\ peer = NoPeer

\* the first caller's call has ended
CallOver == call.kind # "none" /\ pc = "idle"

\* the steps of the two callers and of the pane; the second caller and the
\* pane are followed until the first caller's call has ended.  The pane is
\* one whose terminal draws a line only when the shell reads it.
NextTwo ==
    \/ ExecuteMarkers
    \/ MarkerSendStart
    \/ MarkerSendCommand
    \/ MarkerSendEnd
    \/ MarkerLoop
    \/ MarkerSleep
    \/ ~CallOver /\ PeerExecute
    \/ ~CallOver /\ PeerSendStart
    \/ ~CallOver /\ PeerSendCommand
    \/ ~CallOver /\ PeerSendEnd
    \/ ~CallOver /\ PeerLoop
    \/ ~CallOver /\ PeerSleep
    \/ ~CallOver /\ ShellStart
    \/ ~CallOver /\ ShellFinish

SpecTwo == InitTwo /\ [][NextTwo]_vars

(***************************************************************************)
(* Two calls in succession on one handle.  The first one, in marker mode   *)
(* with timeout 0, has raised CommandTimeoutError right after its three    *)
(* key submissions: the shell has read none of its lines yet.  The caller  *)
(* catches the error and calls execute_and_wait again.                     *)
(***************************************************************************)
TimedOutId == 2
\* the timeouts the caller passes to the second call: one poll_interval
AgainTimeouts == {PollTicks}

InitAgain ==
    LET uid == UidOf(TimedOutId)
        Sent(text) == SendKeysArgs(MySession, text, TRUE, "ok", TimedOutId)
        Line(text, role) == [text |-> text, tag |-> <<TimedOutId, role>>,
                             echoed |-> FALSE]
    IN  /\ pc = "idle"
        /\ target = MySession
        /\ call = [NoCall EXCEPT !.kind = "markers", !.command = CmdLs,
                                 !.uid = uid, !.id = TimedOutId]
        /\ now = 0
        /\ outcome = Raised("CommandTimeoutError", "execute_and_wait")
        /\ exit = NoExit
        /\ frontend = FALSE
        /\ args = NoArgs
        /\ ops = TimedOutId
        /\ log = <<Invocation("has-session", MySession, <<>>, FALSE, FALSE, "ok", 1),
                   Sent(EchoLine(StartMarker(uid))), Sent(CmdLs),
                   Sent(EchoLine(EndMarker(uid)))>>
        /\ asked = <<Ask("other", <<>>, FALSE, <<>>),
                     Ask("markers", CmdLs, TRUE, uid)>>
        /\ sessions = {MySession, OtherSession}
        /\ pane = Prompt
        /\ typed = <<>>
        /\ queue = <<Line(EchoLine(StartMarker(uid)), "start"), Line(CmdLs, "cmd"),
                     Line(EchoLine(EndMarker(uid)), "end")>>
        /\ running = NoLine
        /\ executed = {}
        /\ lab = NoLab
        /\ peer = NoPeer

\* the next execute_and_wait(command, use_markers=True) on the same handle
ExecuteAgain ==
    /\ pc = "idle"
    /\ ops = TimedOutId
    /\ \E timeout \in AgainTimeouts : ExecBegin(CmdLs, timeout, TRUE)

\* the second call has ended
AgainOver == call.id > TimedOutId /\ pc = "idle"

\* the steps of the second call and of the pane; the pane is followed until
\* the second call has ended
NextAgain ==
    \/ ExecuteAgain
    \/ MarkerSendStart
    \/ MarkerSendCommand
    \/ MarkerSendEnd
    \/ MarkerLoop
    \/ MarkerSleep
    \/ ~AgainOver /\ ShellStart
    \/ ~AgainOver /\ ShellFinish
    \/ ~AgainOver /\ TtyEcho

SpecAgain == InitAgain /\ [][NextAgain]_vars

(***************************************************************************)
(* The specification of the text functions: the extraction step of         *)
(* _execute_with_markers and _clean_marker_output, applied to the inputs   *)
(* drawn in the initial state.  The handle, its caller and the pane stay   *)
(* in their initial state.                                                 *)
(***************************************************************************)
LabBuffer(l) ==
    l.prefix \o StartMarker(LabUid) \o l.payload \o EndMarker(LabUid) \o l.suffix

\* the raw block: the start-marker echo line, the command line, the output
\* lines and the end-marker echo line
LabBlock(l) ==
    Join(<<EchoLine(StartMarker(LabUid)), l.command>> \o l.lines
         \o <<EchoLine(EndMarker(LabUid))>>)

InitText ==
    /\ pc = "boot"
    /\ target = <<>>
    /\ call = NoCall
    /\ now = 0
    /\ outcome = NoOutcome
    /\ exit = NoExit
    /\ frontend = FALSE
    /\ args = NoArgs
    /\ ops = 0
    /\ log = <<>>
    /\ asked = <<>>
    /\ sessions = {}
    /\ pane = Prompt
    /\ typed = <<>>
    /\ queue = <<>>
    /\ running = NoLine
    /\ executed = {}
    /\ peer = NoPeer
    /\ \/ \E prefix \in Prefixes, payload \in Payloads, suffix \in Suffixes :
             lab = [NoLab EXCEPT !.stage = "buffer", !.prefix = prefix,
                                 !.payload = payload, !.suffix = suffix,
                                 !.command = CmdLs]
       \/ \E command \in Commands, lines \in OutputLists :
             lab = [NoLab EXCEPT !.stage = "block", !.command = command,
                                 !.lines = lines]
       \/ \E raw \in RawTexts, count \in ReadCounts :
             lab = [NoLab EXCEPT !.stage = "raw", !.raw = raw, !.count = count]
       \/ \E new_content \in NewContents, visible \in VisibleLines :
             lab = [NoLab EXCEPT !.stage = "iteration", !.payload = new_content,
                                 !.visible = visible]

\* lines 263-270 of _execute_with_markers on the buffer
Extract ==
    /\ lab.stage = "buffer"
    /\ LET r == MarkerPoll(LabBuffer(lab), StartMarker(LabUid), EndMarker(LabUid),
                           lab.command)
       IN  lab' = [lab EXCEPT !.stage = "extracted", !.found = r.found,
                              !.output = r.output]
    /\ UNCHANGED callerVars
    /\ UNCHANGED envVars

\* _clean_marker_output(raw, command) on the block
Clean ==
    /\ lab.stage = "block"
    /\ lab' = [lab EXCEPT !.stage = "cleaned",
                          !.output = clean_marker_output(LabBlock(lab), lab.command)]
    /\ UNCHANGED callerVars
    /\ UNCHANGED envVars

\* read_buffer(lines) on the raw capture: strip_ansi, then the lines cut
Read ==
    /\ lab.stage = "raw"
    /\ lab' = [lab EXCEPT !.stage = "read",
                          !.output = read_buffer(lab.raw, lab.count)]
    /\ UNCHANGED callerVars
    /\ UNCHANGED envVars

\* the two tests of one iteration of _execute_with_prompt and what the
\* iteration returns
Detect ==
    /\ lab.stage = "iteration"
    /\ lab' = IF PromptInLastLine(lab.payload)
              THEN [lab EXCEPT !.stage = "detected", !.by = "last", !.found = TRUE,
                               !.output = PromptOutput(lab.payload)]
              ELSE IF PromptSearch(lab.visible)
              THEN [lab EXCEPT !.stage = "detected", !.by = "visible", !.found = TRUE,
                               !.output = VisibleOutput(lab.payload)]
              ELSE [lab EXCEPT !.stage = "detected", !.by = "none"]
    /\ UNCHANGED callerVars
    /\ UNCHANGED envVars

NextText ==
    \/ Extract
    \/ Clean
    \/ Read
    \/ Detect

SpecText == InitText /\ [][NextText]_vars


(***************************************************************************)
(* Vocabulary of the properties.                                           *)
(***************************************************************************)
\* the last execute_and_wait call is over, and this is how it ended
CallEnded(kind) ==
    /\ call.kind # "none"
    /\ ~InCall
    /\ outcome.op = "execute_and_wait"
    /\ outcome.kind = kind

\* the invocations operation k made, in order
InvocationsOf(k) ==
    LET Mine(e) == e.by = k
    IN  SelectSeq(log, Mine)

\* the key submissions operation k made: text and Enter flag, in order
RECURSIVE KeysOf(_)
KeysOf(entries) ==
    IF entries = <<>> THEN <<>>
    ELSE (IF Head(entries).op = "send-keys"
          THEN <<Key(Head(entries).text, Head(entries).enter)>> ELSE <<>>)
         \o KeysOf(Tail(entries))

IsPrefix(a, b) == Len(a) <= Len(b) /\ a = SubSeq(b, 1, Len(a))

(***************************************************************************)
(* C1.  In marker mode, on a pane whose shell executes the submitted lines *)
(* one after another, execute_and_wait returns output only once the        *)
(* submitted command has returned, whatever the pane shows of the keys     *)
(* typed ahead for the end-marker echo.  (The statement of the claim; the  *)
(* code does not satisfy it: the terminal's echo of the typed-ahead        *)
(* end-marker line already contains the end marker.)                       *)
(***************************************************************************)
C1_NoReturnWhileCommandRuns ==
    (call.kind = "markers" /\ CallEnded("output"))
        => <<call.id, "cmd">> \in executed

(***************************************************************************)
(* C2.  A poll iteration of marker mode ends the call with output if and   *)
(* only if its sanitized capture contains both markers of the call and the *)
(* last end marker lies after the last start marker; the value returned is *)
(* the cleaned text between the end of that start marker and the beginning *)
(* of that end marker.  Otherwise the iteration sleeps poll_interval and    *)
(* the loop test comes next.                                               *)
(***************************************************************************)
C2_LastOf(buf, marker) ==
    CHOOSE i \in 0..Len(buf) :
        /\ MatchAt(buf, marker, i)
        /\ \A j \in (i + 1)..Len(buf) : ~MatchAt(buf, marker, j)

C2_Decided(buf, uid) ==
    /\ \E i \in 0..Len(buf) : MatchAt(buf, StartMarker(uid), i)
    /\ \E i \in 0..Len(buf) : MatchAt(buf, EndMarker(uid), i)
    /\ C2_LastOf(buf, EndMarker(uid)) > C2_LastOf(buf, StartMarker(uid))

C2_Between(buf, uid) ==
    LET from == C2_LastOf(buf, StartMarker(uid)) + Len(StartMarker(uid))
        to == C2_LastOf(buf, EndMarker(uid))
    IN  [k \in 1..(to - from) |-> buf[from + k]]

C2_State ==
    call.kind = "markers" =>
        /\ CallEnded("output") <=> (call.polls > 0 /\ C2_Decided(call.buf, call.uid))
        /\ CallEnded("output") =>
               outcome.value = clean_marker_output(C2_Between(call.buf, call.uid),
                                                   call.command)
        /\ pc = "m_sleep" => ~C2_Decided(call.buf, call.uid)

C2_Step ==
    (pc = "m_sleep" /\ pc' # "m_sleep") => (pc' = "m_loop" /\ now' = now + PollTicks)

C2_PollIteration == []C2_State /\ [][C2_Step]_vars

C2_Witness ==
    /\ call.kind = "markers"
    /\ CallEnded("output")
    /\ outcome.value = <<"a">>
    /\ call.polls > 1


(***************************************************************************)
(* C3.  For a buffer prefix + start_marker + payload + end_marker + suffix *)
(* the extraction step returns the cleaned form of payload, stale markers  *)
(* in prefix included, provided that the named start marker is the last    *)
(* occurrence of start_marker in the buffer and the named end marker the   *)
(* last occurrence of end_marker.                                          *)
(***************************************************************************)
C3_NamedAreLast(l) ==
    LET buf == LabBuffer(l)
        s == Len(l.prefix)
        e == Len(l.prefix) + Len(StartMarker(LabUid)) + Len(l.payload)
    IN  /\ \A j \in (s + 1)..Len(buf) : ~MatchAt(buf, StartMarker(LabUid), j)
        /\ \A j \in (e + 1)..Len(buf) : ~MatchAt(buf, EndMarker(LabUid), j)

C3_ExtractsPayloadWhenLast ==
    (lab.stage = "extracted" /\ C3_NamedAreLast(lab))
        => /\ lab.found
           /\ lab.output = clean_marker_output(lab.payload, lab.command)

\* C3 as stated: the same for every prefix and every suffix
C3_ExtractsPayloadAlways ==
    lab.stage = "extracted"
        => /\ lab.found
           /\ lab.output = clean_marker_output(lab.payload, lab.command)

C3_Witness ==
    /\ lab.stage = "extracted"
    /\ C3_NamedAreLast(lab)
    /\ lab.prefix = LabStale \o Prompt
    /\ lab.found
    /\ lab.output = <<"a">>

(***************************************************************************)
(* C4.  _clean_marker_output reduces a block made of the start-marker echo *)
(* line, the command line, one or more output lines and the end-marker     *)
(* echo line to exactly the output lines, unchanged and in order, joined   *)
(* by newlines.  (The statement of the claim; the code does not satisfy    *)
(* it: the final strip() takes the indentation of the first output line,   *)
(* and an output line equal to the command is dropped.)                    *)
(***************************************************************************)
C4_CleanKeepsOutputLines ==
    lab.stage = "cleaned" => lab.output = Join(lab.lines)

(***************************************************************************)
(* C5.  In both strategies a call comes to an end: with an output, with    *)
(* the error of a failed tmux invocation, or else with                     *)
(* CommandTimeoutError.  CommandTimeoutError is never raised before the    *)
(* deadline, and it is raised less than one poll interval plus the time    *)
(* the captures of the last iteration took after the deadline.             *)
(***************************************************************************)
C5_CapturesPerIteration == IF call.kind = "prompt" THEN 2 ELSE 1

C5_RaisedInTime ==
    CallEnded("CommandTimeoutError")
        => /\ now >= call.deadline
           /\ now < call.deadline + PollTicks + call.spent
           /\ call.spent <= C5_CapturesPerIteration * MaxToolTicks

C5_CallEnds ==
    InCall ~> (\/ CallEnded("output")
               \/ CallEnded("TmuxError")
               \/ CallEnded("CommandTimeoutError"))

C5_TimeoutAfterDeadline == []C5_RaisedInTime /\ C5_CallEnds

\* C5 as stated: raised within one poll interval after the deadline
C5_TimeoutWithinOnePoll ==
    CallEnded("CommandTimeoutError")
        => /\ now >= call.deadline
           /\ now <= call.deadline + PollTicks

C5_Witness ==
    /\ CallEnded("CommandTimeoutError")
    /\ call.kind = "markers"
    /\ call.polls > 0
    /\ now > call.deadline

(***************************************************************************)
(* C6.  The send-keys invocations of every operation are, in order, a      *)
(* prefix of: the caller's text and Enter flag for send_keys; the start    *)
(* echo, the caller's command and the end echo for marker mode; the        *)
(* caller's command for fallback mode; nothing for any other operation.    *)
(* They are the whole of it once the operation is over, unless the last    *)
(* invocation the operation made failed.  Every invocation on the pane     *)
(* carries the target stored at construction.                              *)
(***************************************************************************)
C6_Expected(a) ==
    CASE a.op = "send_keys" -> <<Key(a.text, a.enter)>>
      [] a.op = "markers" ->
            <<Key(EchoQuote \o StartMarker(a.uid) \o Quote, TRUE),
              Key(a.text, TRUE),
              Key(EchoQuote \o EndMarker(a.uid) \o Quote, TRUE)>>
      [] a.op = "prompt" -> <<Key(a.text, TRUE)>>
      [] OTHER -> <<>>

C6_Over(k) == k < ops \/ ~InCall

C6_CutShort(k) ==
    /\ InvocationsOf(k) # <<>>
    /\ InvocationsOf(k)[Len(InvocationsOf(k))].res # "ok"

C6_KeysAreAsAsked ==
    /\ Len(asked) = ops
    /\ \A i \in 1..Len(log) :
          log[i].op \in {"send-keys", "capture-pane", "has-session"}
              => log[i].target = MySession
    /\ \A k \in 1..ops :
          /\ IsPrefix(KeysOf(InvocationsOf(k)), C6_Expected(asked[k]))
          /\ (C6_Over(k) /\ ~C6_CutShort(k))
                 => KeysOf(InvocationsOf(k)) = C6_Expected(asked[k])

\* C6 as stated: exactly the keys asked for, for every operation
C6_KeysExactlyAsAsked ==
    \A k \in 1..ops :
        C6_Over(k) => KeysOf(InvocationsOf(k)) = C6_Expected(asked[k])

C6_Witness ==
    /\ call.kind = "markers"
    /\ ~InCall
    /\ Len(KeysOf(InvocationsOf(call.id))) = 3
    /\ KeysOf(InvocationsOf(call.id)) = C6_Expected(asked[call.id])


(***************************************************************************)
(* C7.  A failing invocation made during execute_and_wait, in either       *)
(* strategy, while sending keys or while polling, is the last invocation   *)
(* the call makes, and the call is over with the tool's error: neither     *)
(* CommandTimeoutError nor an output.                                      *)
(***************************************************************************)
C7_FailureEndsCall ==
    call.kind # "none" =>
        \A i \in 1..Len(InvocationsOf(call.id)) :
            InvocationsOf(call.id)[i].res # "ok"
                => /\ i = Len(InvocationsOf(call.id))
                   /\ ~InCall
                   /\ outcome.op = "execute_and_wait"
                   /\ outcome.kind = "TmuxError"

C7_Witness ==
    /\ call.kind = "markers"
    /\ call.polls > 0
    /\ CallEnded("TmuxError")
    /\ log[Len(log)].op = "capture-pane"
    /\ log[Len(log)].res = "nonzero"

(***************************************************************************)
(* C8.  Construction makes the has-session check exactly once and no later *)
(* operation makes it again.  When the check fails, for any failure of the *)
(* gateway, construction raises SessionNotFoundError and there is no       *)
(* handle; when it succeeds there is a handle, and a read_buffer whose     *)
(* capture succeeds returns text without error.                            *)
(***************************************************************************)
C8_Checks ==
    LET IsCheck(e) == e.op = "has-session"
    IN  SelectSeq(log, IsCheck)

C8_Constructed == pc \notin {"boot", "main_ctor"} /\ exit.stderr # "usage:"

C9_ListingNeverRaises ==
    /\ outcome.op = "list_sessions"
           => /\ outcome.kind = "list"
              /\ log[Len(log)].res # "ok" => outcome.names = <<>>
    /\ outcome.op = "session_exists"
           => /\ outcome.kind = "bool"
              /\ log[Len(log)].res # "ok" => ~outcome.flag
    /\ (outcome.op = "construct" /\ log[Len(log)].op = "list-sessions")
           => /\ outcome.kind = "SessionNotFoundError"
              /\ log[Len(log)].res # "ok" => outcome.names = <<>>

C9_Witness ==
    /\ outcome.op = "construct"
    /\ outcome.kind = "SessionNotFoundError"
    /\ log[Len(log)].op = "list-sessions"
    /\ log[Len(log)].res = "TimeoutExpired"

(***************************************************************************)
(* C10.  run_command exits with code 2 exactly when execute_and_wait ended *)
(* with CommandTimeoutError, with code 0 exactly when an output was        *)
(* extracted and printed, and with code 1 otherwise; stderr carries        *)
(* TIMEOUT: with code 2 and ERROR: with code 1.  (The statement of the     *)
(* claim; the code does not satisfy it: a command line that parse_args     *)
(* rejects also ends the process with code 2, and with a usage message.)   *)
(***************************************************************************)
C10_ExitCodes ==
    pc = "exited" =>
        /\ exit.code \in {0, 1, 2}
        /\ exit.code = 2 <=> outcome.kind = "CommandTimeoutError"
        /\ exit.code = 0 <=> outcome.kind = "output"
        /\ exit.code = 0 => exit.stdout = outcome.value \o <<NL>>
        /\ exit.code # 0 => exit.stdout = <<>>
        /\ exit.code = 2 => exit.stderr = "TIMEOUT:"
        /\ exit.code = 1 => exit.stderr = "ERROR:"


(***************************************************************************)
(* C11.  read_buffer(lines=n) returns the last n lines of the sanitized    *)
(* text joined by single newlines, for every n >= 0, and the whole         *)
(* sanitized text when lines is not given.  (The statement of the claim;   *)
(* the code does not satisfy it: for n = 0 the slice [-0:] is the whole    *)
(* list, so every line is returned.)                                       *)
(***************************************************************************)
C11_Last(lines, n) ==
    LET k == IF n < Len(lines) THEN n ELSE Len(lines)
    IN  [i \in 1..k |-> lines[Len(lines) - k + i]]

C11_LastLinesReturned ==
    lab.stage = "read" =>
        lab.output = IF lab.count = NoLines THEN strip_ansi(lab.raw)
                     ELSE Join(C11_Last(SplitLines(strip_ansi(lab.raw)), lab.count))


(***************************************************************************)
(* C17.  The text read_buffer returns holds no occurrence of a recognised  *)
(* control-sequence form, and a raw text without escape character is       *)
(* returned unchanged.  (The statement of the claim; the code does not     *)
(* satisfy it: the sequences are removed in a single pass, and the         *)
(* characters around a removed sequence can form a sequence themselves.)   *)
(***************************************************************************)
C17_Sanitized(text) ==
    \A i \in 1..Len(text) : AnsiMatchLen(text, i) = 0

C17_PlainText(text) ==
    \A i \in 1..Len(text) : text[i] # ESC

C17_NoControlSequenceLeft ==
    (lab.stage = "read" /\ lab.count = NoLines) =>
        /\ C17_Sanitized(lab.output)
        /\ C17_PlainText(lab.raw) => lab.output = lab.raw


(***************************************************************************)
(* C16.  What an iteration of the prompt fallback returns is a function of *)
(* new_content that depends on the test that detected completion: the      *)
(* lines of new_content without the first and the last when the last line  *)
(* of new_content matched the prompt pattern; its lines without the first  *)
(* when only the visible last line of the pane matched (the last line of   *)
(* new_content is then no prompt and is kept).                             *)
(***************************************************************************)
C16_Rest(lines) == [i \in 1..(Len(lines) - 1) |-> lines[i + 1]]

C16_Middle(lines) == [i \in 1..(Len(lines) - 2) |-> lines[i + 1]]

C16_OutputByTest ==
    (lab.stage = "detected" /\ lab.found) =>
        /\ lab.by = "last" => lab.output = Join(C16_Middle(SplitLines(lab.payload)))
        /\ lab.by = "visible" => lab.output = Join(C16_Rest(SplitLines(lab.payload)))

\* C16 as stated: the same function whichever test detected completion
C16_SameOutputEitherTest ==
    (lab.stage = "detected" /\ lab.found) =>
        lab.output = Join(C16_Middle(SplitLines(lab.payload)))

C16_Witness ==
    /\ lab.stage = "detected"
    /\ lab.by = "visible"
    /\ lab.payload = CmdLs \o <<NL, "a", NL, "b", NL>>
    /\ lab.output = <<"a", NL, "b">>


(***************************************************************************)
(* C13.  Every execute_and_wait call comes to an end, and a call that is   *)
(* over has exactly one of three outcomes: an output, CommandTimeoutError, *)
(* or the error of a failed tmux invocation; an error carries no output.   *)
(***************************************************************************)
C13_OneOutcome ==
    (call.kind # "none" /\ ~InCall) =>
        /\ outcome.op = "execute_and_wait"
        /\ outcome.kind \in {"output", "CommandTimeoutError", "TmuxError"}
        /\ outcome.kind # "output" => outcome.value = <<>>

C13_NoEndlessPolling == InCall ~> ~InCall

C13_CallEndsOneWay == []C13_OneOutcome /\ C13_NoEndlessPolling

C13_Witness ==
    /\ call.kind = "prompt"
    /\ call.polls > 1
    /\ CallEnded("CommandTimeoutError")


(***************************************************************************)
(* C14.  The key submissions of a marker-mode call are, in this order, the *)
(* echo of the start marker, the caller's command and the echo of the end  *)
(* marker, each a submission of its own sent with Enter, both markers with *)
(* the token of the call.  A submission that fails ends the call; unless   *)
(* one fails all three are issued, and they are issued before the deadline *)
(* is set and before the first capture.                                    *)
(***************************************************************************)
C14_Echo(word, uid) ==
    <<"e", "c", "h", "o", " ", "'">>
    \o <<"_", "_", "T", "M", "U", "X", "_", "B", "R", "I", "D", "G", "E", "_">>
    \o word \o <<"_">> \o uid \o <<"_", "_", "'">>

C14_Expected ==
    <<Key(C14_Echo(<<"S", "T", "A", "R", "T">>, call.uid), TRUE),
      Key(call.command, TRUE),
      Key(C14_Echo(<<"E", "N", "D">>, call.uid), TRUE)>>

C14_Sent == KeysOf(InvocationsOf(call.id))

C14_Captured ==
    \E i \in 1..Len(InvocationsOf(call.id)) :
        InvocationsOf(call.id)[i].op = "capture-pane"

C14_ThreeSubmissions ==
    call.kind = "markers" =>
        /\ Len(call.uid) = 12
        /\ IsPrefix(C14_Sent, C14_Expected)
        /\ Len(C14_Sent) < 3 =>
              /\ ~C14_Captured
              /\ call.deadline = 0
              /\ pc \notin {"m_loop", "m_sleep"}
        /\ (Len(C14_Sent) < 3 /\ ~InCall) =>
              /\ C14_Sent # <<>>
              /\ log[Len(log)].op = "send-keys"
              /\ log[Len(log)].res # "ok"
        /\ (Len(C14_Sent) = 3 /\ log[Len(log)].res = "ok") =>
              call.deadline >= call.timeout

\* C14 as stated: every marker-mode call issues exactly three submissions
C14_AlwaysThreeSubmissions ==
    (call.kind = "markers" /\ ~InCall) => C14_Sent = C14_Expected

C14_Witness ==
    /\ call.kind = "markers"
    /\ C14_Sent = C14_Expected
    /\ call.timeout > 0
    /\ call.polls = 0
    /\ pc = "m_loop"


(***************************************************************************)
(* C15.  The tmux invocations of a fallback-mode call are, in order: one   *)
(* history capture (pre_buffer); if it succeeds, one key submission with   *)
(* the command and Enter; if that succeeds, captures only, a history       *)
(* capture and then a visible capture per iteration.  Every iteration      *)
(* sleeps poll_interval before its history capture, and what the call      *)
(* returns is computed from the part of the iteration's capture beyond     *)
(* the length of pre_buffer.                                               *)
(***************************************************************************)
C15_Made == InvocationsOf(call.id)

C15_Suffix(buf, pre) == [k \in 1..(Len(buf) - Len(pre)) |-> buf[Len(pre) + k]]

C15_Order ==
    /\ C15_Made # <<>> =>
          /\ C15_Made[1].op = "capture-pane"
          /\ C15_Made[1].history
    /\ Len(C15_Made) > 1 =>
          /\ C15_Made[1].res = "ok"
          /\ C15_Made[2].op = "send-keys"
          /\ C15_Made[2].text = call.command
          /\ C15_Made[2].enter
    /\ \A i \in 3..Len(C15_Made) :
          /\ C15_Made[2].res = "ok"
          /\ C15_Made[i].op = "capture-pane"
          /\ C15_Made[i].history <=> (i % 2 = 1)

C15_FallbackOrder ==
    call.kind = "prompt" =>
        /\ C15_Order
        /\ pc \in {"p_pre", "p_send"} => Len(C15_Made) = IF pc = "p_pre" THEN 0 ELSE 1
        /\ pc = "p_read" =>
              /\ now = call.lastCheck + PollTicks
              /\ Len(C15_Made) % 2 = 0
        /\ (~InCall /\ Len(KeysOf(C15_Made)) = 0) =>
              /\ Len(C15_Made) = 1
              /\ C15_Made[1].res # "ok"
        /\ CallEnded("output") =>
              LET new_content == C15_Suffix(call.buf, call.pre_buffer)
              IN  outcome.value = IF PromptInLastLine(new_content)
                                  THEN PromptOutput(new_content)
                                  ELSE VisibleOutput(new_content)

\* C15 as stated: exactly one key submission in every call
C15_AlwaysOneSubmission ==
    (call.kind = "prompt" /\ ~InCall) => Len(KeysOf(C15_Made)) = 1

C15_Witness ==
    /\ call.kind = "prompt"
    /\ CallEnded("output")
    /\ call.polls > 1
    /\ Len(call.pre_buffer) > Len(Prompt) + 1
    /\ outcome.value = <<"a">>


(***************************************************************************)
(* C12.  Key submissions of two callers of one pane are not ordered by the *)
(* code.  When the region between a call's own start and end markers, or   *)
(* the output the call returns, holds the other caller's command, marker   *)
(* text or output, the other caller has submitted keys while the call was  *)
(* in progress with its start marker sent: callers that do not overlap     *)
(* never see each other's text.  (That overlapping callers do is the       *)
(* state C12_Witness.)                                                     *)
(***************************************************************************)
C12_HasLine(text, line) ==
    \E i \in 1..Len(SplitLines(text)) : SplitLines(text)[i] = line

C12_OthersText(text) ==
    \/ Contains(text, CmdPeer)
    \/ Contains(text, PeerUid)
    \/ C12_HasLine(text, <<"c">>)

C18_Earlier == UidOf(TimedOutId)

C18_EarlierMarkersSeen(buf) ==
    /\ Contains(buf, StartMarker(C18_Earlier))
    /\ Contains(buf, EndMarker(C18_Earlier))

C18_LaterCallIsolated ==
    (call.kind = "markers" /\ call.id > TimedOutId) =>
        /\ call.uid # C18_Earlier
        /\ CallEnded("output") =>
              /\ C2_Decided(call.buf, call.uid)
              /\ ~Contains(outcome.value, C18_Earlier)
              /\ ~Contains(outcome.value, MarkerPrefix)
        /\ (pc = "m_sleep" /\ ~C2_Decided(call.buf, call.uid)) => outcome = NoOutcome
        /\ (call.polls > 0 /\ ~C2_Decided(call.buf, call.uid)) => ~CallEnded("output")

C18_Witness ==
    /\ call.kind = "markers"
    /\ call.id > TimedOutId
    /\ CallEnded("output")
    /\ C18_EarlierMarkersSeen(call.buf)
    /\ C18_EarlierMarkersSeen(C2_Between(call.buf, call.uid))


====
